---- MODULE Spec2Model ----
(***************************************************************************)
(* The skill actions of the web front end: useSkillActions (toggle,        *)
(* update, two-phase delete, optimistic reorder) and syncSkillToTools (the *)
(* batch sync), with the prompts of errorHandlers.  Every await of the     *)
(* source is a suspension point: a handler is a sequence of atomic steps,  *)
(* one per stretch of code between two awaits.  The backend commands and   *)
(* the useSkills hook are not part of the sources at hand; they are        *)
(* modelled from the specification's backend contract.                     *)
(***************************************************************************)
EXTENDS Integers, Sequences, FiniteSets, TLC

\* ------------------------------------------------------------------ bounds
NumSkills == 3
NumTools == 3
MaxOps == 2
MaxSerialOps == 2
MaxBatch == 3
MaxBusyOps == 2
BusySkills == 2
BusyTools == 2
MaxMoveLen == 4
MaxMoveOps == 2
MaxErrLen == 4
MaxPrompts == 3

SkillIds == 1..NumSkills
Tools == 1..NumTools
\* the id of no skill: a null deleteSkillId, an id that resolves to no entry
NoSkill == 0
\* two invocation slots: at most two handlers are in flight together
Procs == {"p1", "p2"}

VARIABLES
  skills,         \* useSkills().skills: the visible list, entries [id, targets]
  actionLoading,  \* the busy flag
  deleteSkillId,  \* the recorded delete target, NoSkill for null
  dbOrder,        \* backend: the persisted order of the skill ids
  dbTargets,      \* backend: dbTargets[s] = the tools skill s is materialized at
  occupied,       \* backend: occupied[s] = tools whose destination for s holds unrelated content
  inv,            \* inv[p]: the invocation running in slot p (its position, its closure, what it did)
  budget          \* invocations that may still be started

vars == <<skills, actionLoading, deleteSkillId, dbOrder, dbTargets, occupied, inv, budget>>

backend == <<dbOrder, dbTargets, occupied>>

\* ------------------------------------------------------------ error strings
\* A backend error is a string; it is modelled as the sequence of its pieces, so that
\* includes(), startsWith() and split('|') are computed on it.
ErrTargetExists == <<"TARGET_EXISTS|", "/a/b/skill.md">>
ErrToolNotInstalled == <<"TOOL_NOT_INSTALLED|", "vscode", "|", "/skills">>
ErrOther == <<"io error">>

ErrStrings == {ErrTargetExists, ErrToolNotInstalled, ErrOther}

Ok == [ok |-> TRUE, err |-> <<>>]
Fail(e) == [ok |-> FALSE, err |-> e]

\* errMsg.includes('TARGET_EXISTS|')
IncludesTargetExists(errMsg) == \E i \in 1..Len(errMsg) : errMsg[i] = "TARGET_EXISTS|"

\* the pieces error strings are made of: the two prefixes (each ends with a pipe), a pipe, and
\* pieces of text without a pipe
ErrTokens ==
  {"TARGET_EXISTS|", "TOOL_NOT_INSTALLED|", "|", "vscode", "/skills", "/a/b/skill.md", "io error"}

\* the error strings of up to MaxErrLen pieces
ErrorInputs == UNION {[1..n -> ErrTokens] : n \in 0..MaxErrLen}

\* the text of a piece in front of its pipe
Stem(tok) ==
  IF tok = "TARGET_EXISTS|" THEN "TARGET_EXISTS"
  ELSE IF tok = "TOOL_NOT_INSTALLED|" THEN "TOOL_NOT_INSTALLED"
  ELSE tok

\* errMsg.split('|'): the fields between the pipes, each the sequence of its pieces
Split(errMsg) ==
  LET F[i \in 0..Len(errMsg)] ==
        IF i = 0 THEN << <<>> >>
        ELSE LET prev == F[i - 1]
                 tok == errMsg[i]
                 last == prev[Len(prev)]
             IN  IF tok = "|" THEN Append(prev, <<>>)
                 ELSE IF tok \in {"TARGET_EXISTS|", "TOOL_NOT_INSTALLED|"}
                 THEN Append([prev EXCEPT ![Len(prev)] = Append(last, Stem(tok))], <<>>)
                 ELSE [prev EXCEPT ![Len(prev)] = Append(last, tok)]
  IN  F[Len(errMsg)]

\* errMsg.match(/TARGET_EXISTS\|(.+)/), as match ? match[1] : '': what follows the first
\* TARGET_EXISTS| (the empty string when nothing follows it)
MatchTargetExists(errMsg) ==
  IF IncludesTargetExists(errMsg)
  THEN LET i == CHOOSE k \in 1..Len(errMsg) :
                  /\ errMsg[k] = "TARGET_EXISTS|"
                  /\ \A j \in 1..(k - 1) : errMsg[j] # "TARGET_EXISTS|"
       IN  SubSeq(errMsg, i + 1, Len(errMsg))
  ELSE <<>>

\* parseTargetExistsError (lines 172-176): null, or the target path
ParseTargetExistsError(errMsg) ==
  IF IncludesTargetExists(errMsg) /\ MatchTargetExists(errMsg) # <<>>
  THEN [found |-> TRUE, targetPath |-> MatchTargetExists(errMsg)]
  ELSE [found |-> FALSE, targetPath |-> <<>>]

\* showGitError (lines 181-216): the tool-not-installed dialog with parts[1] and parts[2], or
\* the error text itself (the git layout of the text is outside the sources at hand)
ShowGitError(errMsg) ==
  IF Len(errMsg) >= 1 /\ errMsg[1] = "TOOL_NOT_INSTALLED|"
  THEN LET parts == Split(errMsg)
       IN  [kind |-> "toolNotInstalled",
            fields |-> <<IF Len(parts) >= 2 THEN parts[2] ELSE <<>>,
                         IF Len(parts) >= 3 THEN parts[3] ELSE <<>> >>]
  ELSE [kind |-> "general", fields |-> <<errMsg>>]

\* the catch block of handleToggleTool (lines 52-70): the conflict prompt with the matched
\* path, else showGitError
ToggleErrorClass(errMsg) ==
  IF IncludesTargetExists(errMsg)
  THEN [kind |-> "conflict", fields |-> <<MatchTargetExists(errMsg)>>]
  ELSE ShowGitError(errMsg)

\* the catch block of syncSkillToTools (lines 321-342): the conflict branch with the matched
\* path, else the error is logged as it is
BatchErrorClass(errMsg) ==
  IF IncludesTargetExists(errMsg)
  THEN [kind |-> "conflict", fields |-> <<MatchTargetExists(errMsg)>>]
  ELSE [kind |-> "general", fields |-> <<errMsg>>]

\* ------------------------------------------------------------------ lists
Ids(list) == [i \in 1..Len(list) |-> list[i].id]

Range(f) == {f[i] : i \in DOMAIN f}

\* list.findIndex((s) => s.id === id), 0 for -1
FindIndex(list, id) ==
  IF \E i \in 1..Len(list) : list[i].id = id
  THEN CHOOSE i \in 1..Len(list) : list[i].id = id /\ \A j \in 1..(i - 1) : list[j].id # id
  ELSE 0

RemoveAt(list, i) == [j \in 1..(Len(list) - 1) |-> IF j < i THEN list[j] ELSE list[j + 1]]

InsertAt(list, i, x) ==
  [j \in 1..(Len(list) + 1) |-> IF j < i THEN list[j] ELSE IF j = i THEN x ELSE list[j - 1]]

\* a swap of the two positions instead of a move
ArrayMoveSwap(list, from, to) ==
  [j \in 1..Len(list) |-> IF j = from THEN list[to] ELSE IF j = to THEN list[from] ELSE list[j]]

\* the element at from written over the one at to, without taking it out
ArrayMoveCopy(list, from, to) == [list EXCEPT ![to] = list[from]]

\* arrayMove(array, from, to): the element at from is taken out and put back at to
ArrayMove(list, from, to) == InsertAt(RemoveAt(list, from), to, list[from])

\* skill.targets.find((t) => t.tool === toolId), as Boolean(target)
TargetsOf(list, id) == IF FindIndex(list, id) = 0 THEN {} ELSE list[FindIndex(list, id)].targets

\* ---------------------------------------------------------------- backend
\* the list the backend returns: its skills in persisted order, each with its targets
BackendList == [i \in 1..Len(dbOrder) |-> [id |-> dbOrder[i], targets |-> dbTargets[dbOrder[i]]]]

\* materialize(centralPath, skillId, toolId, skillName, overwrite): TARGET_EXISTS when the
\* destination holds unrelated content and overwrite is false; any other failure otherwise
MaterializeOutcomes(s, t, overwrite) ==
  IF s \notin Range(dbOrder)
  THEN {Fail(ErrOther)}
  ELSE IF t \in occupied[s] /\ ~overwrite
  THEN {Fail(ErrTargetExists)}
  ELSE {Ok, Fail(ErrToolNotInstalled), Fail(ErrOther)}

\* the effect of a materialize that succeeded: the target exists, the destination is the skill's
Materialized(s, t) ==
  /\ dbTargets' = [dbTargets EXCEPT ![s] = @ \cup {t}]
  /\ occupied' = [occupied EXCEPT ![s] = @ \ {t}]
  /\ UNCHANGED dbOrder

\* dematerialize(skillId, toolId): idempotent removal of the target
Dematerialized(s, t) ==
  /\ dbTargets' = [dbTargets EXCEPT ![s] = @ \ {t}]
  /\ UNCHANGED <<dbOrder, occupied>>

\* every other call (remove, list refresh, tray refresh, persist-order, delete, update)
\* succeeds or fails with an error string the front end does not control
CallOutcomes == {Ok} \cup {Fail(e) : e \in ErrStrings}

\* persistOrder(ids): the backend stores the order it is given, for the skills it has
SeqFilter(seq, keep) ==
  LET F[i \in 0..Len(seq)] ==
        IF i = 0 THEN <<>>
        ELSE IF seq[i] \in keep THEN Append(F[i - 1], seq[i]) ELSE F[i - 1]
  IN  F[Len(seq)]

PersistedOrder(ids) ==
  SeqFilter(ids, Range(dbOrder)) \o SeqFilter(dbOrder, Range(dbOrder) \ Range(ids))

\* ------------------------------------------------------------- invocations
\* what a slot holds: the handler (op), its position (pc), its arguments and closure, and
\* what it has done so far (requests issued, prompts and notices shown)
Idle ==
  [op |-> "idle", pc |-> "idle", skill |-> NoSkill, tool |-> 0, synced |-> FALSE,
   oldSkills |-> <<>>, newSkills |-> <<>>, payload |-> <<>>,
   selectedTools |-> <<>>, i |-> 0, onTargetExists |-> "none", choices |-> {},
   answers |-> <<>>, failedExists |-> {}, succeeded |-> {},
   ok1 |-> FALSE, consistent |-> FALSE, early |-> FALSE, rejected |-> FALSE,
   oldTargets |-> {}, log |-> <<>>, active |-> NoSkill, over |-> NoSkill,
   hasMore |-> FALSE, via |-> "none",
   errMsg |-> <<>>, byToggle |-> <<>>, byBatch |-> <<>>, byParse |-> <<>>, byShow |-> <<>>,
   prompts |-> 0, mat |-> 0, ow |-> 0, rm |-> 0, persist |-> 0, tray |-> 0, errs |-> 0]

\* the record r with one more event in its log: a request issued ("rm", "mat", "ow": remove,
\* materialize without and with overwrite), a call resolved ("ok") or rejected ("exists" for an
\* error string with TARGET_EXISTS, "fail" for any other), a prompt opened ("prompt") and
\* answered ("yes", "no"), a conflict skipped by policy ("skip"),
\* the visible list set by a reorder ("set") and its persist-order request issued ("persist")
Log(r, kind, toolId) == [r EXCEPT !.log = Append(@, <<kind, toolId>>)]

AllIdle == \A q \in Procs : inv[q].op = "idle"

CanStart(p) == inv[p].op = "idle" /\ budget > 0

\* the promise of a finished handler resolves: the slot is free again
Return(p) ==
  /\ inv[p].pc = "done"
  /\ inv' = [inv EXCEPT ![p] = Idle]
  /\ UNCHANGED <<skills, actionLoading, deleteSkillId, backend, budget>>

\* --------------------------------------------------------- handleToggleTool
\* lines 39-49: the skill object is an entry of the rendered list; synced is read from it,
\* busy is set and the remove or the materialize request is issued
HandleToggleTool(p, k, toolId) ==
  /\ CanStart(p)
  /\ k \in 1..Len(skills)
  /\ LET skill == skills[k]
         synced == toolId \in skill.targets
     IN  inv' = [inv EXCEPT ![p] =
                   [Idle EXCEPT !.op = "toggle", !.pc = "t_api", !.skill = skill.id,
                                !.tool = toolId, !.synced = synced,
                                !.oldSkills = skills, !.oldTargets = dbTargets[skill.id],
                                !.log = <<<<IF synced THEN "rm" ELSE "mat", toolId>>>>,
                                !.rm = IF synced THEN 1 ELSE 0,
                                !.mat = IF synced THEN 0 ELSE 1]]
  /\ actionLoading' = TRUE
  /\ budget' = budget - 1
  /\ UNCHANGED <<skills, deleteSkillId, backend>>

\* lines 52-58 and 68-73: the catch block of the outer try, for an error of any of its awaits
ToggleCatch(p, errMsg) ==
  IF IncludesTargetExists(errMsg)
  THEN /\ inv' = [inv EXCEPT ![p] = Log(Log([@ EXCEPT !.pc = "t_prompt", !.prompts = @ + 1],
                                             "exists", @.tool), "prompt", @.tool)]
       /\ UNCHANGED actionLoading
  ELSE /\ inv' = [inv EXCEPT ![p] = Log([@ EXCEPT !.pc = "done", !.errs = @ + 1], "fail", @.tool)]
       /\ actionLoading' = FALSE

\* lines 45-50: the remove or materialize request returns
ToggleApiReturn(p) ==
  /\ inv[p].op = "toggle" /\ inv[p].pc = "t_api"
  /\ \E out \in (IF inv[p].synced THEN CallOutcomes
                 ELSE MaterializeOutcomes(inv[p].skill, inv[p].tool, FALSE)) :
       IF out.ok
       THEN /\ IF inv[p].synced
               THEN Dematerialized(inv[p].skill, inv[p].tool)
               ELSE Materialized(inv[p].skill, inv[p].tool)
            /\ inv' = [inv EXCEPT ![p] = Log([@ EXCEPT !.pc = "t_refresh", !.ok1 = TRUE],
                                              "ok", @.tool)]
            /\ UNCHANGED actionLoading
       ELSE /\ ToggleCatch(p, out.err)
            /\ UNCHANGED backend
  /\ UNCHANGED <<skills, deleteSkillId, budget>>

\* a refresh() that resolves without the list being replaced
ToggleRefreshReturnStale(p) ==
  /\ inv[p].op = "toggle" /\ inv[p].pc = "t_refresh"
  /\ \E out \in CallOutcomes :
       IF out.ok
       THEN /\ inv' = [inv EXCEPT ![p].pc = "t_tray", ![p].tray = @ + 1]
            /\ UNCHANGED <<skills, actionLoading>>
       ELSE /\ ToggleCatch(p, out.err)
            /\ UNCHANGED skills
  /\ UNCHANGED <<deleteSkillId, backend, budget>>

\* lines 50-51: refresh() returns; on success the list is the backend's and
\* refreshTrayMenu() is called
ToggleRefreshReturn(p) ==
  /\ inv[p].op = "toggle" /\ inv[p].pc = "t_refresh"
  /\ \E out \in CallOutcomes :
       IF out.ok
       THEN /\ skills' = BackendList
            /\ inv' = [inv EXCEPT ![p].pc = "t_tray", ![p].tray = @ + 1]
            /\ UNCHANGED actionLoading
       ELSE /\ ToggleCatch(p, out.err)
            /\ UNCHANGED skills
  /\ UNCHANGED <<deleteSkillId, backend, budget>>

\* lines 51, 71-73: refreshTrayMenu() returns
ToggleTrayReturn(p) ==
  /\ inv[p].op = "toggle" /\ inv[p].pc = "t_tray"
  /\ \E out \in CallOutcomes :
       IF out.ok
       THEN /\ inv' = [inv EXCEPT ![p].pc = "done"]
            /\ actionLoading' = FALSE
       ELSE ToggleCatch(p, out.err)
  /\ UNCHANGED <<skills, deleteSkillId, backend, budget>>

\* confirmTargetOverwrite (lines 239-256): the dialog has two buttons; OK ("overwrite")
\* resolves true, Cancel ("skip") resolves false
ConfirmTargetOverwriteAnswers == {"overwrite", "skip"}

\* a prompt whose answer is not looked at: the overwrite request is issued either way
TogglePromptAnswerIgnored(p) ==
  /\ inv[p].op = "toggle" /\ inv[p].pc = "t_prompt"
  /\ \E answer \in ConfirmTargetOverwriteAnswers :
       inv' = [inv EXCEPT ![p] =
                 Log(Log([@ EXCEPT !.pc = "t_retry", !.ow = @ + 1],
                         IF answer = "overwrite" THEN "yes" ELSE "no", @.tool), "ow", @.tool)]
  /\ UNCHANGED <<skills, actionLoading, deleteSkillId, backend, budget>>

\* lines 58-61, 67, 71-73: the prompt is answered
TogglePromptAnswer(p) ==
  /\ inv[p].op = "toggle" /\ inv[p].pc = "t_prompt"
  /\ \E answer \in ConfirmTargetOverwriteAnswers :
       IF answer = "overwrite"
       THEN /\ inv' = [inv EXCEPT ![p] = Log(Log([@ EXCEPT !.pc = "t_retry", !.ow = @ + 1],
                                                  "yes", @.tool), "ow", @.tool)]
            /\ UNCHANGED actionLoading
       ELSE /\ inv' = [inv EXCEPT ![p] = Log([@ EXCEPT !.pc = "done"], "no", @.tool)]
            /\ actionLoading' = FALSE
  /\ UNCHANGED <<skills, deleteSkillId, backend, budget>>

\* an inner catch that leaves the handler without clearing busy
ToggleRetryCatchKeepsBusy(p) ==
  /\ inv' = [inv EXCEPT ![p] = Log([@ EXCEPT !.pc = "done", !.errs = @ + 1], "fail", @.tool)]
  /\ UNCHANGED actionLoading

\* lines 64-66, 71-73: the inner catch, then finally
ToggleRetryCatch(p) ==
  /\ inv' = [inv EXCEPT ![p] = Log([@ EXCEPT !.pc = "done", !.errs = @ + 1], "fail", @.tool)]
  /\ actionLoading' = FALSE

\* lines 61-62: the overwrite request returns
ToggleRetryReturn(p) ==
  /\ inv[p].op = "toggle" /\ inv[p].pc = "t_retry"
  /\ \E out \in MaterializeOutcomes(inv[p].skill, inv[p].tool, TRUE) :
       IF out.ok
       THEN /\ Materialized(inv[p].skill, inv[p].tool)
            /\ inv' = [inv EXCEPT ![p] = Log([@ EXCEPT !.pc = "t_refresh2"], "ok", @.tool)]
            /\ UNCHANGED actionLoading
       ELSE /\ ToggleRetryCatch(p)
            /\ UNCHANGED backend
  /\ UNCHANGED <<skills, deleteSkillId, budget>>

\* lines 62-63: refresh() of the retry returns
ToggleRetryRefreshReturn(p) ==
  /\ inv[p].op = "toggle" /\ inv[p].pc = "t_refresh2"
  /\ \E out \in CallOutcomes :
       IF out.ok
       THEN /\ skills' = BackendList
            /\ inv' = [inv EXCEPT ![p].pc = "t_tray2", ![p].tray = @ + 1]
            /\ UNCHANGED actionLoading
       ELSE /\ ToggleRetryCatch(p)
            /\ UNCHANGED skills
  /\ UNCHANGED <<deleteSkillId, backend, budget>>

\* lines 63-66, 71-73: refreshTrayMenu() of the retry returns
ToggleRetryTrayReturn(p) ==
  /\ inv[p].op = "toggle" /\ inv[p].pc = "t_tray2"
  /\ \E out \in CallOutcomes :
       IF out.ok
       THEN /\ inv' = [inv EXCEPT ![p].pc = "done"]
            /\ actionLoading' = FALSE
       ELSE ToggleRetryCatch(p)
  /\ UNCHANGED <<skills, deleteSkillId, backend, budget>>

\* ------------------------------------------------------------- handleUpdate
\* lines 76-79: busy is set and updateSkill is called
HandleUpdate(p, k) ==
  /\ CanStart(p)
  /\ k \in 1..Len(skills)
  /\ inv' = [inv EXCEPT ![p] = [Idle EXCEPT !.op = "update", !.pc = "u_api", !.skill = skills[k].id]]
  /\ actionLoading' = TRUE
  /\ budget' = budget - 1
  /\ UNCHANGED <<skills, deleteSkillId, backend>>

\* lines 79-84: updateSkill returns; an error is shown, busy is cleared in finally
UpdateReturn(p) ==
  /\ inv[p].op = "update" /\ inv[p].pc = "u_api"
  /\ \E out \in CallOutcomes :
       inv' = [inv EXCEPT ![p].pc = "done", ![p].ok1 = out.ok,
                          ![p].errs = IF out.ok THEN @ ELSE @ + 1]
  /\ actionLoading' = FALSE
  /\ UNCHANGED <<skills, deleteSkillId, backend, budget>>

\* ------------------------------------------------- handleDelete, confirmDelete
\* lines 87-89
HandleDelete(skillId) ==
  /\ deleteSkillId # skillId
  /\ deleteSkillId' = skillId
  /\ UNCHANGED <<skills, actionLoading, backend, inv, budget>>

\* setDeleteSkillId(null): the cancel path of the dialog
CancelDelete ==
  /\ deleteSkillId # NoSkill
  /\ deleteSkillId' = NoSkill
  /\ UNCHANGED <<skills, actionLoading, backend, inv, budget>>

\* a confirmDelete without the guard of line 92: busy is set and deleteSkill is called with
\* whatever is recorded
ConfirmDeleteNoGuard(p) ==
  /\ CanStart(p)
  /\ budget' = budget - 1
  /\ inv' = [inv EXCEPT ![p] = [Idle EXCEPT !.op = "delete", !.pc = "d_api",
                                            !.skill = deleteSkillId]]
  /\ actionLoading' = TRUE
  /\ UNCHANGED <<skills, deleteSkillId, backend>>

\* lines 91-95: the early return with no recorded target, else busy is set and
\* deleteSkill is called
ConfirmDelete(p) ==
  /\ CanStart(p)
  /\ budget' = budget - 1
  /\ IF deleteSkillId = NoSkill
     THEN /\ inv' = [inv EXCEPT ![p] = [Idle EXCEPT !.op = "delete", !.pc = "done", !.early = TRUE]]
          /\ UNCHANGED actionLoading
     ELSE /\ inv' = [inv EXCEPT ![p] = [Idle EXCEPT !.op = "delete", !.pc = "d_api",
                                                     !.skill = deleteSkillId]]
          /\ actionLoading' = TRUE
  /\ UNCHANGED <<skills, deleteSkillId, backend>>

\* lines 98-102: the catch (showGitError), then finally
DeleteCatch(p) ==
  /\ inv' = [inv EXCEPT ![p].pc = "done", ![p].errs = @ + 1]
  /\ actionLoading' = FALSE

\* deleteSkill of the useSkills hook and the backend's delete: the skill and its targets
\* are gone from the backend and from the visible list
SkillDeleted(s) ==
  /\ dbOrder' = SeqFilter(dbOrder, Range(dbOrder) \ {s})
  /\ dbTargets' = [dbTargets EXCEPT ![s] = {}]
  /\ UNCHANGED occupied
  /\ skills' = LET keep == {i \in 1..Len(skills) : skills[i].id # s}
                   F[i \in 0..Len(skills)] ==
                     IF i = 0 THEN <<>>
                     ELSE IF i \in keep THEN Append(F[i - 1], skills[i]) ELSE F[i - 1]
               IN  F[Len(skills)]

\* a confirmDelete that clears the recorded target whatever deleteSkill returned
DeleteReturnAlwaysClears(p) ==
  /\ inv[p].op = "delete" /\ inv[p].pc = "d_api"
  /\ \E out \in CallOutcomes :
       IF out.ok /\ inv[p].skill \in Range(dbOrder)
       THEN /\ SkillDeleted(inv[p].skill)
            /\ deleteSkillId' = NoSkill
            /\ inv' = [inv EXCEPT ![p].pc = "d_tray", ![p].ok1 = TRUE, ![p].tray = @ + 1]
            /\ UNCHANGED actionLoading
       ELSE /\ DeleteCatch(p)
            /\ deleteSkillId' = NoSkill
            /\ UNCHANGED <<skills, backend>>
  /\ UNCHANGED budget

\* lines 95-97: deleteSkill returns; on success the target is cleared and
\* refreshTrayMenu() is called
DeleteReturn(p) ==
  /\ inv[p].op = "delete" /\ inv[p].pc = "d_api"
  /\ \E out \in CallOutcomes :
       IF out.ok /\ inv[p].skill \in Range(dbOrder)
       THEN /\ SkillDeleted(inv[p].skill)
            /\ deleteSkillId' = NoSkill
            /\ inv' = [inv EXCEPT ![p].pc = "d_tray", ![p].ok1 = TRUE, ![p].tray = @ + 1]
            /\ UNCHANGED actionLoading
       ELSE /\ DeleteCatch(p)
            /\ UNCHANGED <<skills, deleteSkillId, backend>>
  /\ UNCHANGED budget

\* lines 97-102: refreshTrayMenu() returns
DeleteTrayReturn(p) ==
  /\ inv[p].op = "delete" /\ inv[p].pc = "d_tray"
  /\ \E out \in CallOutcomes :
       IF out.ok
       THEN /\ inv' = [inv EXCEPT ![p].pc = "done"]
            /\ actionLoading' = FALSE
       ELSE DeleteCatch(p)
  /\ UNCHANGED <<skills, deleteSkillId, backend, budget>>

\* ------------------------------------------------------------ handleDragEnd
\* event.over is null
NoOver == -1

\* a catch block that keeps the optimistic order
DragCatchNoRollback(p) ==
  /\ inv' = [inv EXCEPT ![p].pc = "done", ![p].errs = @ + 1]
  /\ UNCHANGED skills

\* lines 127-132: the catch block: the list is set back to oldSkills, a notice is shown
DragCatch(p) ==
  /\ skills' = inv[p].oldSkills
  /\ inv' = [inv EXCEPT ![p].pc = "done", ![p].errs = @ + 1]

\* a payload taken from the list as it was before the move
DragPayloadStale(oldSkills, newSkills) == Ids(oldSkills)

\* line 125: newSkills.map((s) => s.id)
DragPayload(oldSkills, newSkills) == Ids(newSkills)

\* a no-op test without the comparison of the two ids
DragNoOpNoSame(list, active, over) ==
  over = NoOver \/ FindIndex(list, active) = 0 \/ FindIndex(list, over) = 0

\* lines 108-117: no drop target, the same element, or an id that is not in the list
DragNoOp(list, active, over) ==
  over = NoOver \/ active = over \/ FindIndex(list, active) = 0 \/ FindIndex(list, over) = 0

\* lines 105-125: the no-op returns, else the optimistic update and the persist request
HandleDragEnd(p, active, over) ==
  /\ CanStart(p)
  /\ budget' = budget - 1
  /\ LET oldIndex == FindIndex(skills, active)
         newIndex == FindIndex(skills, over)
     IN  IF DragNoOp(skills, active, over)
         THEN /\ inv' = [inv EXCEPT ![p] = [Idle EXCEPT !.op = "reorder", !.pc = "done",
                                                         !.active = active, !.over = over,
                                                         !.early = TRUE, !.oldSkills = skills]]
              /\ UNCHANGED skills
         ELSE LET newSkills == ArrayMove(skills, oldIndex, newIndex)
              IN  /\ skills' = newSkills
                  /\ inv' = [inv EXCEPT ![p] =
                               [Idle EXCEPT !.op = "reorder", !.pc = "r_api",
                                            !.active = active, !.over = over,
                                            !.oldSkills = skills, !.newSkills = newSkills,
                                            !.payload = DragPayload(skills, newSkills),
                                            !.log = << <<"set", active>>, <<"persist", active>> >>,
                                            !.persist = 1,
                                            !.consistent = (Ids(skills) = dbOrder)]]
  /\ UNCHANGED <<actionLoading, deleteSkillId, backend>>

\* lines 125-126: reorderSkills returns; on success refreshTrayMenu() is called
DragPersistReturn(p) ==
  /\ inv[p].op = "reorder" /\ inv[p].pc = "r_api"
  /\ \E out \in CallOutcomes :
       IF out.ok
       THEN /\ dbOrder' = PersistedOrder(inv[p].payload)
            /\ inv' = [inv EXCEPT ![p].pc = "r_tray", ![p].ok1 = TRUE, ![p].tray = @ + 1]
            /\ UNCHANGED <<skills, dbTargets, occupied>>
       ELSE /\ DragCatch(p)
            /\ UNCHANGED backend
  /\ UNCHANGED <<actionLoading, deleteSkillId, budget>>

\* lines 126-132: refreshTrayMenu() returns; its failure lands in the same catch block
DragTrayReturn(p) ==
  /\ inv[p].op = "reorder" /\ inv[p].pc = "r_tray"
  /\ \E out \in CallOutcomes :
       IF out.ok
       THEN /\ inv' = [inv EXCEPT ![p].pc = "done"]
            /\ UNCHANGED skills
       ELSE DragCatch(p)
  /\ UNCHANGED <<actionLoading, deleteSkillId, backend, budget>>

\* --------------------------------------------------------- syncSkillToTools
\* the for loop of line 318 moves on: the next tool's request (line 320) is issued, or the
\* loop ends
BatchAdvance(r) ==
  IF r.i < Len(r.selectedTools)
  THEN Log([r EXCEPT !.i = @ + 1, !.pc = "b_api", !.mat = @ + 1, !.choices = {}],
           "mat", r.selectedTools[r.i + 1])
  ELSE [r EXCEPT !.pc = "done", !.choices = {}]

\* a catch branch that throws the error on: the loop is left, the batch's promise rejects
BatchRethrown(r) ==
  Log([r EXCEPT !.pc = "done", !.rejected = TRUE, !.choices = {}], "fail", r.selectedTools[r.i])

\* lines 333 and 341: console.error and nothing else; the loop moves on
BatchLogged(r) == BatchAdvance(Log(r, "fail", r.selectedTools[r.i]))

\* lines 315-320: the options are read and the first tool's request is issued
SyncSkillToTools(p, skillId, selectedTools, onTargetExists) ==
  /\ inv[p].op = "idle"
  /\ inv' = [inv EXCEPT ![p] =
               BatchAdvance([Idle EXCEPT !.op = "batch", !.skill = skillId,
                                         !.selectedTools = selectedTools,
                                         !.onTargetExists = onTargetExists])]
  /\ UNCHANGED <<skills, actionLoading, deleteSkillId, backend, budget>>

\* a conflict branch that asks the user under either policy
BatchConflictAlwaysConfirm(r) ==
  Log(Log([r EXCEPT !.pc = "b_prompt", !.prompts = @ + 1,
                    !.choices = ConfirmTargetOverwriteAnswers,
                    !.failedExists = @ \cup {r.selectedTools[r.i]}],
          "exists", r.selectedTools[r.i]), "prompt", r.selectedTools[r.i])

\* a conflict branch that opens the prompt without awaiting it: the loop moves on while the
\* prompt is open
BatchConflictNoAwait(r) ==
  IF r.onTargetExists = "confirm"
  THEN BatchAdvance(Log(Log([r EXCEPT !.prompts = @ + 1,
                                      !.failedExists = @ \cup {r.selectedTools[r.i]}],
                            "exists", r.selectedTools[r.i]), "prompt", r.selectedTools[r.i]))
  ELSE BatchAdvance(Log(Log([r EXCEPT !.failedExists = @ \cup {r.selectedTools[r.i]}],
                            "exists", r.selectedTools[r.i]), "skip", r.selectedTools[r.i]))

\* lines 323-328 and 336-339: TARGET_EXISTS under 'confirm' opens confirmTargetOverwrite,
\* under 'skip' it is logged and the loop moves on
BatchConflict(r) ==
  IF r.onTargetExists = "confirm"
  THEN Log(Log([r EXCEPT !.pc = "b_prompt", !.prompts = @ + 1,
                         !.choices = ConfirmTargetOverwriteAnswers,
                         !.failedExists = @ \cup {r.selectedTools[r.i]}],
               "exists", r.selectedTools[r.i]), "prompt", r.selectedTools[r.i])
  ELSE BatchAdvance(Log(Log([r EXCEPT !.failedExists = @ \cup {r.selectedTools[r.i]}],
                            "exists", r.selectedTools[r.i]), "skip", r.selectedTools[r.i]))

\* lines 320-323 and 340-342: the tool's request returns
BatchApiReturn(p) ==
  /\ inv[p].op = "batch" /\ inv[p].pc = "b_api"
  /\ LET r == inv[p]
         toolId == r.selectedTools[r.i]
     IN  \E out \in MaterializeOutcomes(r.skill, toolId, FALSE) :
           IF out.ok
           THEN /\ Materialized(r.skill, toolId)
                /\ inv' = [inv EXCEPT ![p] =
                             BatchAdvance(Log([r EXCEPT !.succeeded = @ \cup {toolId}], "ok", toolId))]
           ELSE /\ inv' = [inv EXCEPT ![p] = IF IncludesTargetExists(out.err)
                                             THEN BatchConflict(r)
                                             ELSE BatchLogged(r)]
                /\ UNCHANGED backend
  /\ UNCHANGED <<skills, actionLoading, deleteSkillId, budget>>

\* lines 328-331 and 335: the prompt is answered with one of the choices it offers
BatchPromptAnswer(p) ==
  /\ inv[p].op = "batch" /\ inv[p].pc = "b_prompt"
  /\ \E answer \in inv[p].choices :
       LET r == [inv[p] EXCEPT !.answers = Append(@, answer)]
           toolId == r.selectedTools[r.i]
       IN  inv' = [inv EXCEPT ![p] =
                     IF answer = "overwrite"
                     THEN Log(Log([r EXCEPT !.pc = "b_retry", !.ow = @ + 1, !.choices = {}],
                                  "yes", toolId), "ow", toolId)
                     ELSE BatchAdvance(Log(r, "no", toolId))]
  /\ UNCHANGED <<skills, actionLoading, deleteSkillId, backend, budget>>

\* lines 331-334: the overwrite request returns; its failure is logged
BatchRetryReturn(p) ==
  /\ inv[p].op = "batch" /\ inv[p].pc = "b_retry"
  /\ LET r == inv[p]
         toolId == r.selectedTools[r.i]
     IN  \E out \in MaterializeOutcomes(r.skill, toolId, TRUE) :
           IF out.ok
           THEN /\ Materialized(r.skill, toolId)
                /\ inv' = [inv EXCEPT ![p] =
                             BatchAdvance(Log([r EXCEPT !.succeeded = @ \cup {toolId}], "ok", toolId))]
           ELSE /\ inv' = [inv EXCEPT ![p] = BatchLogged(r)]
                /\ UNCHANGED backend
  /\ UNCHANGED <<skills, actionLoading, deleteSkillId, budget>>

\* ---------------------------------------------------- confirmBatchOverwrite
\* a footer that shows the overwrite-all button whatever hasMore is
ConfirmBatchOverwriteButtonsAlways(hasMore) == {"ok", "cancel", "overwriteAll"}

\* lines 275-287: the footer holds the cancel button, the overwrite-all button when hasMore,
\* and the ok button
ConfirmBatchOverwriteButtons(hasMore) ==
  {"ok", "cancel"} \cup (IF hasMore THEN {"overwriteAll"} ELSE {})

\* lines 261-272: the dialog opens for the k-th skill of the list; the promise is pending
ConfirmBatchOverwrite(p, k, hasMore) ==
  /\ CanStart(p)
  /\ k \in 1..Len(skills)
  /\ inv' = [inv EXCEPT ![p] = [Idle EXCEPT !.op = "confirmBatch", !.pc = "m_open",
                                            !.skill = skills[k].id, !.hasMore = hasMore,
                                            !.choices = ConfirmBatchOverwriteButtons(hasMore)]]
  /\ budget' = budget - 1
  /\ UNCHANGED <<skills, actionLoading, deleteSkillId, backend>>

\* lines 273-274 and 281-284: a button of the footer is pressed, or the dialog is dismissed
\* (the dialog then calls onCancel); the dialog closes and the promise resolves
ConfirmBatchOverwriteResolve(p) ==
  /\ inv[p].op = "confirmBatch" /\ inv[p].pc = "m_open"
  /\ \E gesture \in inv[p].choices \cup {"dismiss"} :
       LET result == IF gesture = "ok" THEN "overwrite"
                     ELSE IF gesture = "overwriteAll" THEN "overwriteAll"
                     ELSE "skip"
       IN  inv' = [inv EXCEPT ![p].pc = "done", ![p].via = gesture, ![p].choices = {},
                              ![p].answers = Append(@, result)]
  /\ UNCHANGED <<skills, actionLoading, deleteSkillId, backend, budget>>

\* ------------------------------------------------------------------ specs
\* what the backend holds when the front end starts: every tool's destination is free,
\* holds the skill (synced) or holds unrelated content (occupied)
Arrangements == [Tools -> {"free", "synced", "occupied"}]

InitWith(a, n) ==
  /\ dbOrder = [i \in 1..NumSkills |-> i]
  /\ dbTargets = [s \in SkillIds |-> {t \in Tools : a[t] = "synced"}]
  /\ occupied = [s \in SkillIds |-> {t \in Tools : a[t] = "occupied"}]
  /\ skills = BackendList
  /\ actionLoading = FALSE
  /\ deleteSkillId = NoSkill
  /\ inv = [p \in Procs |-> Idle]
  /\ budget = n

ToggleSteps(p) ==
  \/ ToggleApiReturn(p)
  \/ ToggleRefreshReturn(p)
  \/ ToggleTrayReturn(p)
  \/ TogglePromptAnswer(p)
  \/ ToggleRetryReturn(p)
  \/ ToggleRetryRefreshReturn(p)
  \/ ToggleRetryTrayReturn(p)

BusySteps(p) ==
  \/ ToggleSteps(p)
  \/ UpdateReturn(p)
  \/ DeleteReturn(p)
  \/ DeleteTrayReturn(p)

DragSteps(p) ==
  \/ DragPersistReturn(p)
  \/ DragTrayReturn(p)

BatchSteps(p) ==
  \/ BatchApiReturn(p)
  \/ BatchPromptAnswer(p)
  \/ BatchRetryReturn(p)

\* the handlers that set busy, called on the first nSkills entries and the first nTools tools
BusyStartsOn(p, nSkills, nTools) ==
  \/ \E k \in 1..nSkills, t \in 1..nTools : HandleToggleTool(p, k, t)
  \/ \E k \in 1..nSkills : HandleUpdate(p, k)
  \/ ConfirmDelete(p)

BusyStarts(p) == BusyStartsOn(p, NumSkills, NumTools)

DragStarts(p) ==
  \E active \in 0..NumSkills, over \in NoOver..NumSkills : HandleDragEnd(p, active, over)

Staging ==
  \/ \E s \in SkillIds : HandleDelete(s)
  \/ CancelDelete

\* one arrangement with a synced, an occupied and (from the third tool on) a free destination
MixedArrangement ==
  [t \in Tools |-> IF t % 3 = 1 THEN "synced" ELSE IF t % 3 = 2 THEN "occupied" ELSE "free"]

\* the facade with overlapping invocations: a handler may start while another is in flight
Init == InitWith(MixedArrangement, MaxOps)

Next ==
  \/ \E p \in Procs : BusyStarts(p) \/ DragStarts(p) \/ BusySteps(p) \/ DragSteps(p) \/ Return(p)
  \/ AllIdle /\ budget > 0 /\ Staging

Spec == Init /\ [][Next]_vars

\* the slot that runs the handlers when invocations are serialized
Main == CHOOSE p \in Procs : TRUE

\* the facade with serialized invocations: a handler starts when no other is in flight
SerialInit == InitWith(MixedArrangement, MaxSerialOps)

SerialNext ==
  \/ AllIdle /\ (BusyStarts(Main) \/ DragStarts(Main))
  \/ BusySteps(Main) \/ DragSteps(Main) \/ Return(Main)
  \/ AllIdle /\ budget > 0 /\ Staging

SerialSpec == SerialInit /\ [][SerialNext]_vars

\* the batch sync alone, for the first skill of the list, one batch after the other
\* selectedTools: the tools ticked in the modal, each once, in any order
BatchLists ==
  {sel \in UNION {[1..n -> Tools] : n \in 0..MaxBatch} :
     \A i, j \in 1..Len(sel) : i # j => sel[i] # sel[j]}

BatchInit == \E a \in Arrangements : InitWith(a, 0)

BatchNext ==
  \/ \E sel \in BatchLists, pol \in {"confirm", "skip"} :
       SyncSkillToTools(Main, skills[1].id, sel, pol)
  \/ BatchSteps(Main)
  \/ Return(Main)

BatchSpec == BatchInit /\ [][BatchNext]_vars

\* the busy-flag handlers (toggle, update, delete) with overlapping invocations, every
\* pending call and prompt eventually returning
BusyInit == InitWith(MixedArrangement, MaxBusyOps)

BusyNext ==
  \/ \E p \in Procs : BusyStartsOn(p, BusySkills, BusyTools) \/ BusySteps(p) \/ Return(p)
  \/ AllIdle /\ budget > 0 /\ \E s \in 1..BusySkills : HandleDelete(s)

BusySpec ==
  /\ BusyInit
  /\ [][BusyNext]_vars
  /\ \A p \in Procs : WF_vars(BusySteps(p) \/ Return(p))

\* the reorder alone, on lists of one to MaxMoveLen skills, one reorder after the other
MoveInit ==
  \E n \in 1..MaxMoveLen :
    /\ dbOrder = [i \in 1..n |-> i]
    /\ dbTargets = [s \in 1..n |-> {}]
    /\ occupied = [s \in 1..n |-> {}]
    /\ skills = BackendList
    /\ actionLoading = FALSE
    /\ deleteSkillId = NoSkill
    /\ inv = [p \in Procs |-> Idle]
    /\ budget = MaxMoveOps

MoveNext ==
  \/ AllIdle /\ \E active \in 0..MaxMoveLen, over \in NoOver..MaxMoveLen :
                   HandleDragEnd(Main, active, over)
  \/ DragSteps(Main)
  \/ Return(Main)

MoveSpec == MoveInit /\ [][MoveNext]_vars

\* the classification of one error string by the three places that look at error strings
ErrorInit ==
  \E e \in ErrorInputs :
    /\ dbOrder = [i \in 1..NumSkills |-> i]
    /\ dbTargets = [s \in SkillIds |-> {}]
    /\ occupied = [s \in SkillIds |-> {}]
    /\ skills = BackendList
    /\ actionLoading = FALSE
    /\ deleteSkillId = NoSkill
    /\ inv = [p \in Procs |-> IF p = Main
                               THEN [Idle EXCEPT !.op = "classify", !.pc = "c_toggle", !.errMsg = e]
                               ELSE Idle]
    /\ budget = 0

\* the catch block of handleToggleTool looks at the string
ToggleClassifies(p) ==
  /\ inv[p].op = "classify" /\ inv[p].pc = "c_toggle"
  /\ inv' = [inv EXCEPT ![p].pc = "c_batch", ![p].byToggle = ToggleErrorClass(inv[p].errMsg)]
  /\ UNCHANGED <<skills, actionLoading, deleteSkillId, backend, budget>>

\* the catch block of syncSkillToTools looks at the string
BatchClassifies(p) ==
  /\ inv[p].op = "classify" /\ inv[p].pc = "c_batch"
  /\ inv' = [inv EXCEPT ![p].pc = "c_helper", ![p].byBatch = BatchErrorClass(inv[p].errMsg)]
  /\ UNCHANGED <<skills, actionLoading, deleteSkillId, backend, budget>>

\* parseTargetExistsError and showGitError look at the string
HelperClassifies(p) ==
  /\ inv[p].op = "classify" /\ inv[p].pc = "c_helper"
  /\ inv' = [inv EXCEPT ![p].pc = "done",
                         ![p].byParse = ParseTargetExistsError(inv[p].errMsg),
                         ![p].byShow = ShowGitError(inv[p].errMsg)]
  /\ UNCHANGED <<skills, actionLoading, deleteSkillId, backend, budget>>

ErrorNext ==
  \/ ToggleClassifies(Main)
  \/ BatchClassifies(Main)
  \/ HelperClassifies(Main)
  \/ Return(Main)

ErrorSpec == ErrorInit /\ [][ErrorNext]_vars

\* the three-way prompt alone: up to MaxPrompts dialogs, two of them open together at most
PromptInit == InitWith(MixedArrangement, MaxPrompts)

PromptNext ==
  \E p \in Procs :
    \/ \E k \in 1..NumSkills, hasMore \in BOOLEAN : ConfirmBatchOverwrite(p, k, hasMore)
    \/ ConfirmBatchOverwriteResolve(p)
    \/ Return(p)

PromptSpec == PromptInit /\ [][PromptNext]_vars

\* two toggles one after the other: the second is started when the first has finished; the
\* first stays in its slot, so that both are there to be compared
First == "p1"
Second == "p2"

RoundTripInit == InitWith(MixedArrangement, MaxOps)

RoundTripNext ==
  \/ \E k \in 1..NumSkills, t \in Tools : HandleToggleTool(First, k, t)
  \/ /\ inv[First].op = "toggle" /\ inv[First].pc = "done"
     /\ \E k \in 1..NumSkills, t \in Tools : HandleToggleTool(Second, k, t)
  \/ ToggleSteps(First)
  \/ ToggleSteps(Second)

RoundTripSpec == RoundTripInit /\ [][RoundTripNext]_vars

\* ----------------------------------------------------------------- claims
Finished(p, op) == inv[p].op = op /\ inv[p].pc = "done" /\ ~inv[p].early

\* has set busy and has not finished
InFlightBusy(p) == inv[p].op \in {"toggle", "update", "delete"} /\ inv[p].pc \notin {"idle", "done"}

\* C1: a reorder that started with the visible order equal to the persisted order, run with
\* invocations serialized, ends with the visible order equal to the persisted order, whatever
\* reorderSkills and refreshTrayMenu returned.
C1_ReorderConsistency ==
  \A p \in Procs :
    (Finished(p, "reorder") /\ inv[p].consistent) => Ids(skills) = dbOrder

\* C2: when reorderSkills fails, the reorder ends with the visible list equal to the list as
\* it was right before the optimistic update, not the moved order, and with one failure
\* notice shown.
C2_ReorderRollback ==
  \A p \in Procs :
    (Finished(p, "reorder") /\ ~inv[p].ok1) =>
      /\ skills = inv[p].oldSkills
      /\ skills # inv[p].newSkills
      /\ inv[p].errs = 1

C2_Witness ==
  \E p \in Procs :
    /\ Finished(p, "reorder") /\ ~inv[p].ok1 /\ inv[p].errs = 1
    /\ Len(inv[p].oldSkills) >= 3
    /\ inv[p].newSkills = ArrayMove(inv[p].oldSkills, 1, 3)
    /\ skills = inv[p].oldSkills

\* C3: a confirm batch offers "overwriteAll" at a conflict while tools remain, and once that
\* answer has been given no further prompt is shown in the batch.
C3_OverwriteAll ==
  \A p \in Procs :
    (inv[p].op = "batch" /\ inv[p].onTargetExists = "confirm") =>
      /\ (inv[p].pc = "b_prompt" /\ inv[p].i < Len(inv[p].selectedTools)) =>
           "overwriteAll" \in inv[p].choices
      /\ (\E n \in 1..Len(inv[p].answers) : inv[p].answers[n] = "overwriteAll") =>
           inv[p].pc # "b_prompt"

\* C4: a skip batch shows no prompt and issues no overwrite request; when it ends, no tool
\* whose request failed with TARGET_EXISTS is among the skill's targets and every tool whose
\* request succeeded is.
C4_BatchSkip ==
  \A p \in Procs :
    (inv[p].op = "batch" /\ inv[p].onTargetExists = "skip") =>
      /\ inv[p].prompts = 0 /\ inv[p].ow = 0 /\ inv[p].pc \notin {"b_prompt", "b_retry"}
      /\ inv[p].pc = "done" =>
           /\ inv[p].failedExists \cap dbTargets[inv[p].skill] = {}
           /\ inv[p].succeeded \subseteq dbTargets[inv[p].skill]

C4_Witness ==
  \E p \in Procs :
    /\ inv[p].op = "batch" /\ inv[p].onTargetExists = "skip" /\ inv[p].pc = "done"
    /\ Len(inv[p].selectedTools) = 3
    /\ inv[p].selectedTools[2] \in inv[p].failedExists
    /\ inv[p].selectedTools[1] \in inv[p].succeeded \ inv[p].failedExists
    /\ inv[p].selectedTools[3] \in inv[p].succeeded \ inv[p].failedExists
    /\ inv[p].mat = 3

\* C5: a toggle of a synced pair shows no prompt and issues no materialize request, whatever
\* the calls return; when the remove succeeded the tool is gone from the skill's targets.
C5_ToggleSynced ==
  \A p \in Procs :
    (inv[p].op = "toggle" /\ inv[p].synced) =>
      /\ inv[p].prompts = 0 /\ inv[p].mat = 0 /\ inv[p].ow = 0
      /\ (inv[p].pc = "done" /\ inv[p].ok1) => inv[p].tool \notin TargetsOf(skills, inv[p].skill)

\* C6: a toggle of an unsynced pair whose materialize succeeded ends with the tool among the
\* skill's targets, one materialize request without overwrite, no prompt and one call of
\* refreshTrayMenu.
C6_ToggleUnsynced ==
  \A p \in Procs :
    (Finished(p, "toggle") /\ ~inv[p].synced /\ inv[p].ok1) =>
      /\ inv[p].tool \in TargetsOf(skills, inv[p].skill)
      /\ inv[p].mat = 1 /\ inv[p].ow = 0 /\ inv[p].prompts = 0
      /\ inv[p].tray = 1

\* C7: while a reorder waits for reorderSkills, between its optimistic update and its
\* confirmation or rollback, no step of another action changes the skill list; so the
\* rollback replaces nothing but the reorder's own optimistic order.
C7_NoInterleaving ==
  [][\A p \in Procs :
       (inv[p].op = "reorder" /\ inv[p].pc = "r_api") =>
         /\ inv'[p].pc = "r_api" => skills' = skills
         /\ skills = inv[p].newSkills]_vars

\* C8: each of toggle, update, delete and reorder has the busy flag set while it waits for a
\* backend call or a prompt of its own (invocations serialized).
C8_BusySet ==
  \A p \in Procs :
    (inv[p].op \in {"toggle", "update", "delete", "reorder"} /\ inv[p].pc \notin {"idle", "done"}) =>
      actionLoading

\* C9: with every call and prompt returning, every toggle, update and confirmDelete
\* finishes, and whenever none of them is in flight the busy flag is false.
C9_BusyCleared ==
  /\ \A p \in Procs : [](InFlightBusy(p) => <>(inv[p].pc = "done"))
  /\ [](\A p \in Procs :
          (inv[p].op \in {"toggle", "update", "delete"} /\ inv[p].pc = "done"
             /\ \A q \in Procs \ {p} : ~InFlightBusy(q)) => ~actionLoading)

C9_Witness ==
  \E p \in Procs :
    /\ inv[p].op = "toggle" /\ inv[p].pc = "done"
    /\ inv[p].ow = 1 /\ inv[p].errs = 1
    /\ \A q \in Procs \ {p} : inv[q].op = "delete" /\ inv[q].pc = "done" /\ inv[q].early
    /\ ~actionLoading

\* C10: whenever a toggle, an update or a confirmDelete is in flight, the busy flag is true,
\* also when another one that overlapped it has finished.
C10_BusyOverlap == \A p \in Procs : InFlightBusy(p) => actionLoading

\* the tools of the log's events of the given kinds, in the order they were logged
LogTools(log, kinds) ==
  LET F[i \in 0..Len(log)] ==
        IF i = 0 THEN <<>>
        ELSE IF log[i][1] \in kinds THEN Append(F[i - 1], log[i][2]) ELSE F[i - 1]
  IN  F[Len(log)]

\* C11: a batch issues one materialize request without overwrite for every tool of
\* selectedTools, whatever happened at the earlier tools; it can always take its next step
\* until it is done, and its promise never rejects.
C11_BatchContinues ==
  \A p \in Procs :
    inv[p].op = "batch" =>
      /\ ~inv[p].rejected
      /\ LogTools(inv[p].log, {"mat"}) = SubSeq(inv[p].selectedTools, 1, inv[p].i)
      /\ inv[p].pc = "done" => LogTools(inv[p].log, {"mat"}) = inv[p].selectedTools
      /\ inv[p].pc # "done" => ENABLED BatchSteps(p)

C11_Witness ==
  \E p \in Procs :
    /\ inv[p].op = "batch" /\ inv[p].pc = "done"
    /\ inv[p].selectedTools = <<1, 2, 3>>
    /\ inv[p].log = << <<"mat", 1>>, <<"fail", 1>>,
                       <<"mat", 2>>, <<"exists", 2>>, <<"prompt", 2>>, <<"no", 2>>,
                       <<"mat", 3>>, <<"exists", 3>>, <<"prompt", 3>>, <<"yes", 3>>,
                       <<"ow", 3>>, <<"fail", 3>> >>

\* C12: a batch handles its tools in the order of selectedTools, one at a time: a tool's
\* first request is logged right after the previous tool's request, prompt and retry have
\* completed, an overwrite request right after the prompt's answer, and at most one request
\* is in flight, none while a prompt is open.
C12_BatchOrder ==
  \A p \in Procs :
    inv[p].op = "batch" =>
      LET log == inv[p].log
          issued == Len(LogTools(log, {"mat", "ow"}))
          returned == Len(LogTools(log, {"ok", "exists", "fail"}))
      IN  /\ LogTools(log, {"mat"}) = SubSeq(inv[p].selectedTools, 1, inv[p].i)
          /\ \A n \in 2..Len(log) :
                /\ log[n][1] = "mat" =>
                     /\ log[n - 1][1] \in {"ok", "fail", "no", "skip"}
                     /\ \E k \in 2..inv[p].i :
                          /\ log[n][2] = inv[p].selectedTools[k]
                          /\ log[n - 1][2] = inv[p].selectedTools[k - 1]
                /\ log[n][1] = "ow" => log[n - 1] = <<"yes", log[n][2]>>
          /\ issued - returned = (IF inv[p].pc \in {"b_api", "b_retry"} THEN 1 ELSE 0)

C12_Witness ==
  \E p \in Procs :
    /\ inv[p].op = "batch" /\ inv[p].pc = "b_api"
    /\ inv[p].selectedTools = <<3, 1, 2>>
    /\ inv[p].log = << <<"mat", 3>>, <<"exists", 3>>, <<"prompt", 3>>, <<"yes", 3>>,
                       <<"ow", 3>>, <<"ok", 3>>, <<"mat", 1>>, <<"ok", 1>>, <<"mat", 2>> >>

\* C13: recording a delete target and clearing it again change nothing but deleteSkillId: no
\* request is issued, the skill list, the backend and the busy flag stay as they are; and a
\* confirmDelete with no recorded target returns at once, with no backend call, no call of
\* refreshTrayMenu, no error shown and the list, the backend and the busy flag unchanged.
C13_DeleteCancel ==
  [][/\ (AllIdle /\ deleteSkillId' # deleteSkillId) =>
          UNCHANGED <<skills, actionLoading, backend, inv>>
     /\ \A p \in Procs :
          (inv[p].op = "idle" /\ inv'[p].op = "delete" /\ deleteSkillId = NoSkill) =>
            /\ inv'[p].pc = "done" /\ inv'[p].early
            /\ inv'[p].tray = 0 /\ inv'[p].errs = 0
            /\ UNCHANGED <<skills, actionLoading, backend, deleteSkillId>>
     /\ \A p \in Procs :
          (inv[p].op = "delete" /\ inv[p].early /\ inv'[p] # inv[p]) =>
            /\ inv'[p].op = "idle"
            /\ UNCHANGED <<skills, actionLoading, backend, deleteSkillId>>]_vars

C13_Witness ==
  \E p \in Procs :
    /\ inv[p].op = "delete" /\ inv[p].pc = "done" /\ inv[p].early
    /\ deleteSkillId = NoSkill /\ ~actionLoading
    /\ Len(skills) = NumSkills /\ skills = BackendList
    /\ budget = MaxSerialOps - 1

\* C14: a toggle whose materialize request failed with TARGET_EXISTS and whose prompt was
\* declined is over with the decline: no overwrite request and no other request follows, the
\* skill list and the skill's targets are what they were when the toggle started, no error
\* is shown and refreshTrayMenu is not called.
C14_ToggleDeclined ==
  \A p \in Procs :
    (/\ inv[p].op = "toggle" /\ Len(inv[p].log) >= 4
     /\ SubSeq(inv[p].log, 1, 4) = << <<"mat", inv[p].tool>>, <<"exists", inv[p].tool>>,
                                      <<"prompt", inv[p].tool>>, <<"no", inv[p].tool>> >>) =>
      /\ inv[p].pc = "done" /\ Len(inv[p].log) = 4
      /\ inv[p].mat = 1 /\ inv[p].ow = 0 /\ inv[p].rm = 0
      /\ inv[p].tray = 0 /\ inv[p].errs = 0
      /\ skills = inv[p].oldSkills
      /\ dbTargets[inv[p].skill] = inv[p].oldTargets
      /\ inv[p].tool \notin dbTargets[inv[p].skill]
      /\ ~actionLoading

C14_Witness ==
  \E p \in Procs :
    /\ inv[p].op = "toggle" /\ inv[p].pc = "done" /\ inv[p].tool = 2
    /\ inv[p].log = << <<"mat", 2>>, <<"exists", 2>>, <<"prompt", 2>>, <<"no", 2>> >>
    /\ inv[p].prompts = 1 /\ 2 \in occupied[inv[p].skill]

\* the state-changing backend call of the invocation has succeeded: the remove or a
\* materialize of a toggle, the deleteSkill of a confirmDelete, the reorderSkills of a reorder
Succeeded(r) ==
  IF r.op = "toggle" THEN \E n \in 1..Len(r.log) : r.log[n][1] = "ok" ELSE r.ok1

\* C15: a toggle, a confirmDelete and a reorder that have ended have called refreshTrayMenu
\* once when their state-changing backend call succeeded (for a toggle also through an
\* accepted overwrite retry), and not at all when it failed or was not attempted.
C15_RefreshOnSuccess ==
  \A p \in Procs :
    (inv[p].op \in {"toggle", "delete", "reorder"} /\ inv[p].pc = "done") =>
      inv[p].tray = (IF Succeeded(inv[p]) THEN 1 ELSE 0)

\* C16: a reorder with a real move sets the visible list to the new order and then issues
\* one persist-order request; the request's payload is the sequence of the ids of that new
\* visible order, every skill id of the list once.
C16_OptimisticFirst ==
  \A p \in Procs :
    (inv[p].op = "reorder" /\ ~inv[p].early) =>
      /\ Len(inv[p].log) = 2 /\ inv[p].log[1][1] = "set" /\ inv[p].log[2][1] = "persist"
      /\ inv[p].persist = 1
      /\ inv[p].newSkills # inv[p].oldSkills
      /\ inv[p].pc = "r_api" => skills = inv[p].newSkills
      /\ inv[p].payload = Ids(inv[p].newSkills)
      /\ Len(inv[p].payload) = Len(inv[p].oldSkills)
      /\ Range(inv[p].payload) = Range(Ids(inv[p].oldSkills))
      /\ \A i, j \in 1..Len(inv[p].payload) : i # j => inv[p].payload[i] # inv[p].payload[j]

C16_Witness ==
  \E p \in Procs :
    /\ inv[p].op = "reorder" /\ inv[p].pc = "r_api"
    /\ Ids(inv[p].oldSkills) = <<1, 2, 3>>
    /\ Ids(skills) = <<2, 3, 1>> /\ inv[p].payload = <<2, 3, 1>>
    /\ dbOrder = <<1, 2, 3>>

\* C17: a reorder whose two ids are the same, whose drop target is absent, or one of whose
\* ids is not in the skill list returns at once: the visible list is unchanged, no
\* persist-order request is issued, refreshTrayMenu is not called and no error is shown.
C17_ReorderNoOp ==
  \A p \in Procs :
    (/\ inv[p].op = "reorder"
     /\ \/ inv[p].over = NoOver
        \/ inv[p].active = inv[p].over
        \/ inv[p].active \notin Range(Ids(inv[p].oldSkills))
        \/ inv[p].over \notin Range(Ids(inv[p].oldSkills))) =>
      /\ inv[p].pc = "done"
      /\ skills = inv[p].oldSkills
      /\ inv[p].persist = 0 /\ inv[p].payload = <<>> /\ inv[p].log = <<>>
      /\ inv[p].tray = 0 /\ inv[p].errs = 0

C17_Witness ==
  \E p \in Procs :
    /\ inv[p].op = "reorder" /\ inv[p].pc = "done"
    /\ Len(inv[p].oldSkills) = NumSkills - 1
    /\ inv[p].active \in Range(Ids(inv[p].oldSkills))
    /\ inv[p].over \in SkillIds \ Range(Ids(inv[p].oldSkills))
    /\ skills = inv[p].oldSkills /\ inv[p].persist = 0

\* C18: the new order of a reorder from index from to index to (both valid, distinct) is the
\* old list with the element at from taken out and put back at index to: the entries between
\* the two indices shift by one towards from, all others stay in place; [1,2,3,4] moved from
\* the first to the third position gives [2,3,1,4].
C18_MoveSemantics ==
  \A p \in Procs :
    (inv[p].op = "reorder" /\ ~inv[p].early) =>
      LET old == inv[p].oldSkills
          new == inv[p].newSkills
          from == FindIndex(old, inv[p].active)
          to == FindIndex(old, inv[p].over)
      IN  /\ from \in 1..Len(old) /\ to \in 1..Len(old) /\ from # to
          /\ Len(new) = Len(old)
          /\ new[to] = old[from]
          /\ \A j \in 1..Len(old) :
                j # to =>
                  new[j] = IF from < to /\ from <= j /\ j < to THEN old[j + 1]
                           ELSE IF to < from /\ to < j /\ j <= from THEN old[j - 1]
                           ELSE old[j]
          /\ (Ids(old) = <<1, 2, 3, 4>> /\ from = 1 /\ to = 3) => Ids(new) = <<2, 3, 1, 4>>

C18_Witness ==
  \E p \in Procs :
    /\ inv[p].op = "reorder" /\ inv[p].pc = "r_api"
    /\ Ids(inv[p].oldSkills) = <<1, 2, 3, 4>>
    /\ inv[p].active = 1 /\ inv[p].over = 3
    /\ Ids(skills) = <<2, 3, 1, 4>>

\* a piece of text without a pipe
Plain(tok) == tok \notin {"TARGET_EXISTS|", "TOOL_NOT_INSTALLED|", "|"}

\* C19: "TARGET_EXISTS|<path>" is a conflict with payload <path>;
\* "TOOL_NOT_INSTALLED|<toolKey>|<skillsPath>" is tool-not-installed with those two fields;
\* every other string is a general error shown as it is; toggle, batch and the helpers of
\* errorHandlers choose the same class for the same string.
C19_ErrorClasses ==
  \A p \in Procs :
    (inv[p].op = "classify" /\ inv[p].pc = "done") =>
      LET e == inv[p].errMsg
          conflict == [kind |-> "conflict", fields |-> <<Tail(e)>>]
          general == [kind |-> "general", fields |-> <<e>>]
      IN  /\ (Len(e) >= 2 /\ e[1] = "TARGET_EXISTS|") =>
                /\ inv[p].byToggle = conflict /\ inv[p].byBatch = conflict
                /\ inv[p].byParse = [found |-> TRUE, targetPath |-> Tail(e)]
          /\ (Len(e) >= 1 /\ e[1] = "TOOL_NOT_INSTALLED|") =>
                /\ inv[p].byToggle.kind = "toolNotInstalled"
                /\ inv[p].byShow = inv[p].byToggle
                /\ inv[p].byBatch.kind # "conflict" /\ ~inv[p].byParse.found
                /\ (Len(e) = 4 /\ Plain(e[2]) /\ e[3] = "|" /\ Plain(e[4])) =>
                     inv[p].byShow.fields = << <<e[2]>>, <<e[4]>> >>
          /\ (Len(e) = 0 \/ e[1] \notin {"TARGET_EXISTS|", "TOOL_NOT_INSTALLED|"}) =>
                /\ inv[p].byToggle = general /\ inv[p].byBatch = general
                /\ inv[p].byShow = general /\ ~inv[p].byParse.found

\* C20: in a toggle and in a batch, a prompt is opened only right after a materialize request
\* without overwrite failed with TARGET_EXISTS, an overwrite request is issued only right
\* after that prompt was accepted, for the same tool and once, and a failure of any other
\* kind is followed by no prompt and no retry.
C20_OverwriteConsent ==
  \A p \in Procs :
    inv[p].op \in {"toggle", "batch"} =>
      LET log == inv[p].log
      IN  \A n \in 1..Len(log) :
            /\ log[n][1] = "prompt" =>
                 /\ n >= 3
                 /\ log[n - 1] = <<"exists", log[n][2]>>
                 /\ log[n - 2] = <<"mat", log[n][2]>>
            /\ log[n][1] = "ow" =>
                 /\ n >= 5
                 /\ log[n - 1] = <<"yes", log[n][2]>>
                 /\ log[n - 2] = <<"prompt", log[n][2]>>
                 /\ log[n - 3] = <<"exists", log[n][2]>>
                 /\ log[n - 4] = <<"mat", log[n][2]>>
                 /\ \A m \in 1..Len(log) : log[m] = log[n] => m = n
            /\ (log[n][1] = "fail" /\ n < Len(log)) => log[n + 1][1] = "mat"

\* C21: when the deleteSkill call of a confirmDelete returns, the recorded target is cleared
\* if and only if the deletion succeeded: on success the target is null and the skill is gone
\* from the list; on failure the target is still the same id, the list is as it was, one
\* error is shown and the handler is over; the refreshTrayMenu step changes neither.
C21_DeleteOutcomes ==
  [][\A p \in Procs :
       /\ (inv[p].op = "delete" /\ inv[p].pc = "d_api" /\ inv'[p].pc # "d_api") =>
            /\ deleteSkillId = inv[p].skill /\ inv[p].skill # NoSkill
            /\ IF inv'[p].ok1
               THEN /\ deleteSkillId' = NoSkill
                    /\ inv[p].skill \notin Range(Ids(skills'))
                    /\ inv'[p].errs = 0
               ELSE /\ deleteSkillId' = inv[p].skill
                    /\ skills' = skills
                    /\ inv'[p].errs = 1 /\ inv'[p].pc = "done"
                    /\ UNCHANGED backend
       /\ (inv[p].op = "delete" /\ inv[p].pc \in {"d_tray", "done"}) =>
            /\ UNCHANGED <<deleteSkillId, skills>>
            /\ (deleteSkillId = NoSkill) <=> (inv[p].ok1 \/ inv[p].early)]_vars

C21_Witness ==
  \E p \in Procs :
    /\ inv[p].op = "delete" /\ inv[p].pc = "done" /\ ~inv[p].ok1 /\ ~inv[p].early
    /\ inv[p].errs = 1 /\ inv[p].tray = 0
    /\ deleteSkillId = inv[p].skill
    /\ inv[p].skill \in Range(Ids(skills)) /\ Len(skills) = NumSkills

\* C22: confirmBatchOverwrite resolves once, with "overwrite", "overwriteAll" or "skip"; with
\* hasMore false the overwrite-all button is not shown and "overwriteAll" is never the
\* result; cancelling or dismissing the dialog gives "skip".
C22_ThreeWayPrompt ==
  \A p \in Procs :
    inv[p].op = "confirmBatch" =>
      /\ inv[p].pc \in {"m_open", "done"}
      /\ inv[p].pc = "m_open" =>
           /\ inv[p].answers = <<>>
           /\ ("overwriteAll" \in inv[p].choices) <=> inv[p].hasMore
      /\ inv[p].pc = "done" =>
           /\ Len(inv[p].answers) = 1
           /\ inv[p].answers[1] \in {"overwrite", "overwriteAll", "skip"}
           /\ ~inv[p].hasMore => inv[p].answers[1] # "overwriteAll"
           /\ inv[p].via \in {"cancel", "dismiss"} => inv[p].answers[1] = "skip"
           /\ inv[p].via = "ok" => inv[p].answers[1] = "overwrite"

C22_Witness ==
  \E p, q \in Procs :
    /\ inv[p].op = "confirmBatch" /\ inv[p].pc = "done"
    /\ ~inv[p].hasMore /\ inv[p].via = "dismiss" /\ inv[p].answers = <<"skip">>
    /\ inv[q].op = "confirmBatch" /\ inv[q].pc = "done"
    /\ inv[q].hasMore /\ inv[q].answers = <<"overwriteAll">>

\* C23: through any sequence of reorders (persisted, failed and rolled back, or no-ops) the
\* visible list holds the same skill ids, each once: no reorder and no rollback drops,
\* repeats or adds a skill.
C23_Permutation ==
  /\ Len(skills) = Len(dbOrder)
  /\ Range(Ids(skills)) = 1..Len(dbOrder)
  /\ \A i, j \in 1..Len(skills) : i # j => skills[i].id # skills[j].id
  /\ \A p \in Procs :
       (inv[p].op = "reorder" /\ ~inv[p].early) =>
         /\ Len(inv[p].newSkills) = Len(inv[p].oldSkills)
         /\ Range(Ids(inv[p].newSkills)) = Range(Ids(inv[p].oldSkills))

C23_Witness ==
  \E p \in Procs :
    /\ inv[p].op = "reorder" /\ inv[p].pc = "done" /\ ~inv[p].early /\ ~inv[p].ok1
    /\ budget = 0
    /\ Ids(skills) = <<2, 3, 1, 4>>
    /\ Ids(inv[p].newSkills) = <<4, 2, 3, 1>>
    /\ dbOrder = <<2, 3, 1, 4>>

\* every call of the toggle resolved: no error, no prompt, the list refreshed and
\* refreshTrayMenu called
AllCallsOk(r) ==
  r.op = "toggle" /\ r.pc = "done" /\ r.errs = 0 /\ r.prompts = 0 /\ r.tray = 1

\* C24: two toggles of the same skill and tool, the second started after the first has
\* finished and refreshed the list, all calls resolving, leave the skill's targets (in the
\* visible list and in the backend) as they were before the first, with one materialize and
\* one remove request between them and no overwrite.
C24_ToggleRoundTrip ==
  (/\ AllCallsOk(inv[First]) /\ AllCallsOk(inv[Second])
   /\ inv[First].skill = inv[Second].skill /\ inv[First].tool = inv[Second].tool) =>
    /\ TargetsOf(skills, inv[First].skill) = TargetsOf(inv[First].oldSkills, inv[First].skill)
    /\ dbTargets[inv[First].skill] = inv[First].oldTargets
    /\ inv[Second].synced # inv[First].synced
    /\ inv[First].mat + inv[Second].mat = 1
    /\ inv[First].rm + inv[Second].rm = 1
    /\ inv[First].ow + inv[Second].ow = 0

C24_Witness ==
  /\ AllCallsOk(inv[First]) /\ AllCallsOk(inv[Second])
  /\ inv[First].skill = 2 /\ inv[Second].skill = 2
  /\ inv[First].tool = 3 /\ inv[Second].tool = 3
  /\ inv[First].log = << <<"mat", 3>>, <<"ok", 3>> >>
  /\ inv[Second].log = << <<"rm", 3>>, <<"ok", 3>> >>
  /\ 3 \notin TargetsOf(skills, 2) /\ 3 \notin dbTargets[2]
====
